---- MODULE Spec2Model ----
(***************************************************************************)
(* State machine of ib_async's order functionality (OrdersMixin,           *)
(* src/ib_async/functionality/orders.py) and of the market-data            *)
(* subscription manager exercised by src/tests/test_func_market_data.py.   *)
(*                                                                         *)
(* Conventions.  Python's None, 0, "" and False are all the integer 0      *)
(* ("falsy"); every other value is a positive integer.  Order objects and  *)
(* asyncio futures live on two heaps (sequences) and are referred to by    *)
(* their index, so that object identity is observable.                     *)
(***************************************************************************)
EXTENDS Integers, Sequences, FiniteSets, TLC

\* ------------------------------------------------------------------ bounds
\* Order ids the server may mention (pushes, errors, next-valid-id).
MaxId == 2
\* Number of place_order calls in a run (each makes one asyncio.Future).
MaxPlace == 2
\* Number of Order objects that may exist (constructed locally or by a push).
MaxObjs == 2

\* Instruments, change-notification handlers per instrument, request ids handed out.
MaxInstruments == 1
MaxHandlers == 2
MaxRequests == 3
\* Tick pushes delivered to one instrument.
MaxTicks == 2
\* Futures get_open_orders creates.
MaxOpenOrders == 2

OrderIds == 1..MaxId
\* Payload an open-order push carries; every data field is derived from it.
Payloads == {1, 2}
\* Payload a status push carries.
StatusPayloads == {1}
\* (error_code, error_message) pairs an error message may carry.
Errors == {<<201, "Order rejected">>, <<399, "Order message warning">>}

\* ------------------------------------------------- protocol version floors
MIN_CLIENT == 100
PEGGED_TO_BENCHMARK == 102
MODELS_SUPPORT == 103
SOFT_DOLLAR_TIER == 106
CASH_QTY == 111
REQ_SMART_COMPONENTS == 114
\* Negotiated versions a session may run under.
Versions == {MIN_CLIENT, CASH_QTY}
\* Message-format versions an open-order message may carry at its head.
MessageVersions == {19, 34}
\* The order type string "PEG BENCH" (all values are integers here).
PEG_BENCH == 9

VARIABLES
    orders,            \* OrdersMixin.__orders: order id -> Order ref (0: no entry)
    heap,              \* the Order objects, by reference
    next_order_id,     \* OrdersMixin._next_order_id
    submitted_future,  \* OrdersMixin.__submitted_future: id -> future ref (0: no entry)
    futures,           \* the asyncio futures, by reference
    version,           \* the negotiated protocol version
    lastOp,            \* the last operation: its input, what it sent, how it ended
    instruments,       \* per instrument: declared interest, handlers, subscription state
    next_request_id,   \* the next request id the session hands out
    mdOp,              \* the last market-data operation and what it sent
    wire,              \* per instrument: the subscription the remote side holds
    tick_data,         \* Instrument._tick_data: tick type -> last value (0: none)
    received,          \* per instrument: the tick types its handlers were called with
    market_info,       \* per instrument: timeliness and request parameters
    snapshot_future,   \* request id -> future ref of a one-shot fetch (0: no entry)
    snapshot_futures,  \* the futures fetch_market_data returned, by reference
    open_orders_future,  \* OrdersMixin.__open_orders_future: future ref (0: None)
    open_orders_futures  \* the futures get_open_orders created, by reference

oovars == <<open_orders_future, open_orders_futures>>

ordvars == <<orders, heap, next_order_id, submitted_future, futures, version, lastOp, oovars>>

tickvars == <<tick_data, received, market_info>>

fetchvars == <<snapshot_future, snapshot_futures>>

mdvars == <<instruments, next_request_id, mdOp, wire, tickvars, fetchvars>>

vars == <<orders, heap, next_order_id, submitted_future, futures, version, lastOp,
          instruments, next_request_id, mdOp, wire, tick_data, received, market_info,
          snapshot_future, snapshot_futures, open_orders_future, open_orders_futures>>

\* ------------------------------------------------------------ Order objects
\* The parameters of _handle_open_order that are copied to the order as they are.
OpenOrderArgs ==
    <<"order_id", "perm_id", "instrument", "action", "total_quantity", "order_type",
      "limit_price", "aux_price", "time_in_force", "oca_group", "account", "open_close",
      "origin", "order_ref", "client_id", "outside_regular_trading_hours", "hidden",
      "discretionary_amount", "good_after_time", "fa_group", "fa_method",
      "fa_percentage", "fa_profile">>

\* The attributes _handle_order_status assigns.
StatusAttrs ==
    <<"status", "filled", "remaining", "average_fill_price", "perm_id", "parent_id",
      "last_fill_price", "client_id", "why_held", "market_cap_price">>

\* One step of the open-order decoder: read a token (if `axis`/`floor` say it is on
\* the wire) and, by `kind`, assign it to an attribute ("set"), raise
\* UnsupportedFeature when it is nonzero ("raise"), or keep it for the `if` that
\* follows ("test").  `cond` is the enclosing `if` of the source.
Fld(line, a) ==
    [line |-> line, attr |-> a, kind |-> "set", axis |-> "none", floor |-> 0, cond |-> "always"]
MinVersion(e, floor) == [e EXCEPT !.axis = "version", !.floor = floor]
MinMessageVersion(e, floor) == [e EXCEPT !.axis = "message", !.floor = floor]
If(c, e) == [e EXCEPT !.cond = c]
Unsupported(line, feature) == [Fld(line, feature) EXCEPT !.kind = "raise"]
ReadTest(line) == [Fld(line, "underlying_component?") EXCEPT !.kind = "test"]

\* The message.read calls of _handle_open_order, in wire order.
OpenOrderFields ==
    << MinVersion(Fld(164, "model_code"), MODELS_SUPPORT),
       Fld(165, "good_till_date"), Fld(166, "rule80a"), Fld(167, "percent_offset"),
       Fld(168, "settling_firm"), Fld(169, "short_sale_slot"),
       Fld(170, "designated_location"), Fld(171, "exempt_code"),
       Fld(172, "auction_strategy"), Fld(173, "starting_price"),
       Fld(174, "stock_ref_price"), Fld(175, "delta"), Fld(176, "stock_range_lower"),
       Fld(177, "stock_range_upper"), Fld(178, "display_size"),
       Fld(180, "block_order"), Fld(181, "sweep_to_fill"), Fld(182, "all_or_none"),
       Fld(183, "min_quantity"), Fld(184, "oca_type"), Fld(185, "etrade_only"),
       Fld(186, "firm_quote_only"), Fld(187, "nbbo_price_cap"), Fld(188, "parent_id"),
       Fld(189, "trigger_method"), Fld(190, "volatility"), Fld(191, "volatility_type"),
       Fld(192, "delta_neutral_order_type"), Fld(193, "delta_neutral_aux_price"),
       If("delta_neutral_order_type", Fld(196, "delta_neutral_contract_id")),
       If("delta_neutral_order_type", Fld(197, "delta_neutral_settling_firm")),
       If("delta_neutral_order_type", Fld(198, "delta_neutral_clearing_account")),
       If("delta_neutral_order_type", Fld(199, "delta_neutral_clearing_intent")),
       If("delta_neutral_order_type", Fld(200, "delta_neutral_open_close")),
       If("delta_neutral_order_type", Fld(201, "delta_neutral_short_sale")),
       If("delta_neutral_order_type", Fld(202, "delta_neutral_short_sale_slot")),
       If("delta_neutral_order_type", Fld(203, "delta_neutral_designated_location")),
       Fld(205, "continuous_update"), Fld(206, "reference_price_type"),
       Fld(207, "trail_stop_price"), Fld(208, "trailing_percent"),
       Fld(209, "basis_points"), Fld(210, "basis_points_type"),
       Fld(211, "combo_legs_description"),
       Unsupported(213, "combo legs"),
       Unsupported(216, "order combo legs"),
       Fld(219, "smart_combo_routing_params"), Fld(220, "scale_init_level_size"),
       Fld(221, "scale_subs_level_size"), Fld(222, "scale_price_increment"),
       If("scale_price_increment", MinMessageVersion(Fld(225, "scale_price_adjust_value"), 28)),
       If("scale_price_increment", MinMessageVersion(Fld(226, "scale_price_adjust_interval"), 28)),
       If("scale_price_increment", MinMessageVersion(Fld(227, "scale_profit_offset"), 28)),
       If("scale_price_increment", MinMessageVersion(Fld(228, "scale_auto_reset"), 28)),
       If("scale_price_increment", MinMessageVersion(Fld(229, "scale_init_position"), 28)),
       If("scale_price_increment", MinMessageVersion(Fld(230, "scale_init_fill_quantity"), 28)),
       If("scale_price_increment", MinMessageVersion(Fld(231, "scale_random_percent"), 28)),
       MinMessageVersion(Fld(233, "hedge_type"), 24),
       If("hedge_type", Fld(235, "hedge_param")),
       MinMessageVersion(Fld(237, "opt_out_smart_routing"), 25),
       Fld(239, "clearing_account"), Fld(240, "clearing_intent"),
       MinMessageVersion(Fld(242, "not_held"), 22),
       MinMessageVersion(ReadTest(244), 20),
       If("underlying_component?", Fld(245, "underlying_component")),
       MinMessageVersion(Fld(247, "algo_strategy"), 21),
       If("algo_strategy", Fld(249, "algo_parameters")),
       MinMessageVersion(Fld(251, "solicited"), 33),
       Fld(253, "what_if"), Fld(255, "status"), Fld(256, "inital_margin"),
       Fld(257, "maintenance_margin"), Fld(258, "equity_with_loan"),
       Fld(259, "commission"), Fld(260, "min_commission"), Fld(261, "max_commission"),
       Fld(262, "commission_currency"), Fld(263, "warning_text"),
       MinMessageVersion(Fld(265, "randomize_size"), 34),
       MinMessageVersion(Fld(266, "randomize_price"), 34),
       If("PEG BENCH", MinVersion(Fld(269, "reference_contract_id"), PEGGED_TO_BENCHMARK)),
       If("PEG BENCH", MinVersion(Fld(270, "is_pegged_change_amount_decrease"), PEGGED_TO_BENCHMARK)),
       If("PEG BENCH", MinVersion(Fld(271, "pegged_change_amount"), PEGGED_TO_BENCHMARK)),
       If("PEG BENCH", MinVersion(Fld(272, "reference_change_amount"), PEGGED_TO_BENCHMARK)),
       If("PEG BENCH", MinVersion(Fld(273, "reference_exchange_id"), PEGGED_TO_BENCHMARK)),
       MinVersion(Unsupported(275, "order conditions"), PEGGED_TO_BENCHMARK),
       MinVersion(Fld(278, "adjusted_order_type"), PEGGED_TO_BENCHMARK),
       MinVersion(Fld(279, "trigger_price"), PEGGED_TO_BENCHMARK),
       MinVersion(Fld(280, "trail_stop_price"), PEGGED_TO_BENCHMARK),
       MinVersion(Fld(281, "limit_price_offset"), PEGGED_TO_BENCHMARK),
       MinVersion(Fld(282, "adjusted_stop_price"), PEGGED_TO_BENCHMARK),
       MinVersion(Fld(283, "adjusted_stop_limit_price"), PEGGED_TO_BENCHMARK),
       MinVersion(Fld(284, "adjusted_trailing_amount"), PEGGED_TO_BENCHMARK),
       MinVersion(Fld(285, "adjustable_trailing_unit"), PEGGED_TO_BENCHMARK),
       MinVersion(Fld(287, "soft_dollar_tier_name"), SOFT_DOLLAR_TIER),
       MinVersion(Fld(288, "soft_dollar_tier_value"), SOFT_DOLLAR_TIER),
       MinVersion(Fld(289, "soft_dollar_tier_display_name"), SOFT_DOLLAR_TIER),
       MinVersion(Fld(291, "cash_quantity"), CASH_QTY) >>

Range(s) == {s[i] : i \in DOMAIN s}

\* Every attribute an Order carries in this model.
OrderAttrs ==
    Range(OpenOrderArgs) \cup Range(StatusAttrs)
        \cup {OpenOrderFields[i].attr : i \in {j \in DOMAIN OpenOrderFields : OpenOrderFields[j].kind = "set"}}

\* Order(self): a new record, every attribute at its type default, no id yet.
NewOrder == [a \in OrderAttrs |-> 0]

\* --------------------------------------------------------- versioned reader
\* message.read(..., min_version=, min_message_version=): whether the field is on
\* the wire under negotiated version v and message version mv.
Present(e, v, mv) ==
    CASE e.axis = "version" -> v >= e.floor
      [] e.axis = "message" -> mv >= e.floor
      [] OTHER -> TRUE

\* The fields whose value opens a conditional section of the message.
SectionKeys ==
    {"delta_neutral_order_type", "scale_price_increment", "hedge_type",
     "underlying_component?", "algo_strategy"}

\* An open-order message: payload v for the data fields, ext = 1 when the optional
\* sections are filled in (and the order is PEG BENCH), the three presence flags,
\* and the message version at the head of the message.
NoFlags == [f \in {"combo legs", "order combo legs", "order conditions"} |-> 0]

AnyOpenOrderMessage ==
    [v : Payloads, ext : {0, 1}, message_version : MessageVersions,
     flags : [{"combo legs", "order combo legs", "order conditions"} -> {0, 1}]]

\* The open-order messages the decoder specification delivers: with payload 1 the
\* plain layout, the layout with the optional sections, and the layout of an old
\* message version; with payload 2 the plain layout with one presence flag set,
\* or all three.
OpenOrderMessages ==
    {m \in AnyOpenOrderMessage :
        \/ m.v = 1 /\ m.flags = NoFlags /\ (m.ext = 0 \/ m.message_version = 34)
        \/ /\ m.v = 2 /\ m.ext = 0 /\ m.message_version = 34
           /\ Cardinality({f \in DOMAIN m.flags : m.flags[f] = 1}) \in {1, 3}}

\* The messages the order-lifecycle specification delivers: one payload in the
\* plain layout, decodable or with the combo-legs flag set.
LifecycleMessages ==
    {m \in AnyOpenOrderMessage :
        /\ m.v = 1 /\ m.ext = 0 /\ m.message_version = 34
        /\ m.flags["order combo legs"] = 0 /\ m.flags["order conditions"] = 0}

\* The token the message holds for decoder step e.
Token(msg, e) ==
    CASE e.kind = "raise" -> msg.flags[e.attr]
      [] e.attr \in SectionKeys -> msg.ext * msg.v
      [] OTHER -> msg.v

\* The value of parameter a of _handle_open_order for message msg.
OpenOrderArg(msg, id, a) ==
    CASE a = "order_id" -> id
      [] a = "order_type" -> IF msg.ext = 1 THEN PEG_BENCH ELSE msg.v
      [] OTHER -> msg.v

\* Whether the `if` enclosing step e is taken.
Taken(e, st) ==
    CASE e.cond = "always" -> TRUE
      [] e.cond = "PEG BENCH" -> st.ord["order_type"] = PEG_BENCH
      [] e.cond = "underlying_component?" -> st.test # 0
      [] OTHER -> st.ord[e.cond] # 0

\* Faulty variant of ReadStep: a nonzero presence flag is read and skipped, nothing is raised.
ReadStepIgnoresFlag(i, st, msg, v) ==
    LET e == OpenOrderFields[i]
        on == Present(e, v, msg.message_version)
        val == IF on THEN Token(msg, e) ELSE 0
        st1 == [st EXCEPT !.read = IF on THEN i ELSE @]
    IN  IF ~Taken(e, st) THEN st
        ELSE CASE e.kind = "set" -> [st1 EXCEPT !.ord[e.attr] = val, !.assigned = @ \cup {e.attr}]
               [] e.kind = "test" -> [st1 EXCEPT !.test = val]
               [] OTHER -> st1

\* One message.read call and what the handler does with the value.
\* st.read is the last step whose token was taken from the message, st.raised the
\* feature of the UnsupportedFeature raised ("" while none is).
ReadStep(i, st, msg, v) ==
    LET e == OpenOrderFields[i]
        on == Present(e, v, msg.message_version)
        val == IF on THEN Token(msg, e) ELSE 0
        st1 == [st EXCEPT !.read = IF on THEN i ELSE @]
    IN  IF ~Taken(e, st) THEN st
        ELSE CASE e.kind = "set" -> [st1 EXCEPT !.ord[e.attr] = val, !.assigned = @ \cup {e.attr}]
               [] e.kind = "test" -> [st1 EXCEPT !.test = val]
               [] OTHER -> IF val # 0 THEN [st1 EXCEPT !.raised = e.attr] ELSE st1

\* Lines 164-291: the reads in order, up to the end or to the first raise.
RECURSIVE Decode(_, _, _, _)
Decode(i, st, msg, v) ==
    IF i > Len(OpenOrderFields) \/ st.raised # "" THEN st
    ELSE Decode(i + 1, ReadStep(i, st, msg, v), msg, v)

\* Lines 140-162: the parameters copied to the order.
RECURSIVE AssignArgs(_, _, _, _)
AssignArgs(k, ord, msg, id) ==
    IF k > Len(OpenOrderArgs) THEN ord
    ELSE AssignArgs(k + 1, [ord EXCEPT ![OpenOrderArgs[k]] = OpenOrderArg(msg, id, OpenOrderArgs[k])], msg, id)

\* Lines 140-291 on a record: the attributes the handler assigns (st.assigned) and
\* their last values (st.ord), the last step read and the feature raised.  Every
\* `if` of the handler tests a value assigned earlier in the same call, so what is
\* assigned does not depend on what the record held before.
Assignments(msg, v, id) ==
    Decode(1, [ord |-> AssignArgs(1, NewOrder, msg, id), assigned |-> Range(OpenOrderArgs),
               read |-> 0, test |-> 0, raised |-> ""], msg, v)

\* The same, worked out once for every message, version and id.
AssignmentTable ==
    {<<msg, v, id, Assignments(msg, v, id)>> :
        msg \in OpenOrderMessages \cup LifecycleMessages, v \in Versions, id \in OrderIds}

AssignmentsOf(msg, v, id) ==
    (CHOOSE t \in AssignmentTable : t[1] = msg /\ t[2] = v /\ t[3] = id)[4]

\* The record after the handler's assignments.
Assigned(ord, st) == [a \in OrderAttrs |-> IF a \in st.assigned THEN st.ord[a] ELSE ord[a]]

\* ----------------------------------------------------------------- futures
NewFuture == [state |-> "pending", result |-> 0, code |-> 0, message |-> ""]

\* asyncio.Future.set_result / set_exception raise InvalidStateError on a future
\* that is already done (a result, an exception, or cancelled).
Completes(futs, f) == futs[f].state = "pending"

SetResult(futs, f, o) ==
    IF Completes(futs, f)
    THEN [futs EXCEPT ![f].state = "result", ![f].result = o]
    ELSE futs

\* Faulty variant of SetException: the error is delivered as a result.
SetExceptionAsResult(futs, f, err) ==
    IF Completes(futs, f)
    THEN [futs EXCEPT ![f].state = "result", ![f].code = err[1], ![f].message = err[2]]
    ELSE futs

SetException(futs, f, err) ==
    IF Completes(futs, f)
    THEN [futs EXCEPT ![f].state = "exception", ![f].code = err[1], ![f].message = err[2]]
    ELSE futs

\* What set_result / set_exception on the popped entry f raises (f = 0: no entry,
\* nothing is called).
Raises(futs, f) == IF f # 0 /\ ~Completes(futs, f) THEN "InvalidStateError" ELSE ""

\* Faulty variant of Pop: dict.get, the entry stays in the map.
PopKeepsEntry(map, id) == map

\* Faulty variant of Pop: taking one entry empties the map.
PopAll(map, id) == [i \in DOMAIN map |-> 0]

\* dict.pop(id, None): the map without the entry.
Pop(map, id) == [map EXCEPT ![id] = 0]

\* The record of an operation: which it was, the exception it ended with ("" for
\* none), whether order.updated was called, whether the session's generic error
\* handler was called, the last decoder step that took a token, the messages it
\* handed to send_message, and the id it took from _next_order_id (0 for none).
NoOp == [op |-> "init", raised |-> "", notified |-> FALSE, delegated |-> FALSE,
         read |-> 0, sent |-> << >>, allocated |-> 0]

\* ------------------------------------------------------------------- state
\* The state after __init__ (lines 28-33), under each negotiated version.
InitOrders ==
    /\ orders = [i \in OrderIds |-> 0]
    /\ heap = << >>
    /\ next_order_id = 1
    /\ submitted_future = [i \in OrderIds |-> 0]
    /\ futures = << >>
    /\ lastOp = NoOp
    /\ open_orders_future = 0
    /\ open_orders_futures = << >>

\* ---------------------------------------------------------- market data
\* The tick types an instrument may declare (test_subscribe, line 32).
TickTypes == {100, 101}

Instruments == 1..MaxInstruments

\* The first request id of a session (test_subscribe, line 36).
FIRST_REQUEST_ID == 43

\* An instrument nobody has touched: no declared interest, no handler on
\* on_market_data, no active subscription (0 for None).
NewInstrument ==
    [market_data_tick_types |-> {}, on_market_data |-> 0,
     active_request_id |-> 0, last_sent_tick_types |-> {}]

NoMdOp == [op |-> "init", instrument |-> 0, sent |-> << >>, raised |-> ""]

\* The remote side holds no subscription for an instrument.
NoSubscription == [request_id |-> 0, tick_types |-> << >>]

\* The tick types the pushes of test_subscribe report (lines 47-66).
TickNames == {"DelayedAsk", "DelayedAskSize", "MarkPrice", "Shortable", "BidSize"}

\* Values a tick push may carry.
TickValues == {1, 2}

\* MarketDataTimeliness values a MARKET_DATA_TYPE push may carry (line 43: 3 is
\* Delayed); 0 stands for not yet told.
Timeliness == {1, 3}

NoMarketInfo ==
    [market_data_timeliness |-> 0, minimum_tick |-> 0, bbo_exchange |-> 0,
     snapshot_permissions |-> 0]

\* The request ids a session hands out.
RequestIds == FIRST_REQUEST_ID..(FIRST_REQUEST_ID + MaxRequests - 1)

InitMarketData ==
    /\ instruments = [i \in Instruments |-> NewInstrument]
    /\ next_request_id = FIRST_REQUEST_ID
    /\ mdOp = NoMdOp
    /\ wire = [i \in Instruments |-> NoSubscription]
    /\ tick_data = [i \in Instruments |-> [t \in TickNames |-> 0]]
    /\ received = [i \in Instruments |-> << >>]
    /\ market_info = [i \in Instruments |-> NoMarketInfo]
    /\ snapshot_future = [id \in RequestIds |-> 0]
    /\ snapshot_futures = << >>

Init == InitOrders /\ InitMarketData /\ version = CASH_QTY

InitDecode == InitOrders /\ InitMarketData /\ version \in Versions

\* Sessions with a server too old for regulatory snapshots, and with one that
\* has them (test_regulatory_snapshot, line 99).
InitFetch == InitOrders /\ InitMarketData /\ version \in {MIN_CLIENT, REQ_SMART_COMPONENTS}

\* get_order(order_id): the Order, or 0 for None.
get_order(id) == IF orders[id] = 0 THEN 0 ELSE heap[orders[id]]

\* -------------------------------------------------------------- place_order
\* Lines 93-94: the id the order is placed under.
PlacedId(ord) == IF ord["order_id"] = 0 THEN next_order_id ELSE ord["order_id"]

\* What send_message hands to the transport, with the registrations the
\* transport finds for the order id at that moment.
PlaceOrderMessage(o, id, ords, futs) ==
    [msg |-> "PLACE_ORDER", msg_version |-> 45, order |-> o, order_id |-> id,
     ledger_at_send |-> ords[id], future_at_send |-> futs[id]]

\* Faulty variant of PlaceOrder: the message is handed to the transport before the order
\* and its future are registered.
PlaceOrderSendsFirst(o) ==
    /\ Len(futures) < MaxPlace
    /\ o \in 1..(Len(heap) + 1)
    /\ o <= MaxObjs
    /\ LET ord == IF o <= Len(heap) THEN heap[o] ELSE NewOrder
           id == PlacedId(ord)
           placed == [ord EXCEPT !["order_id"] = id]
           f == Len(futures) + 1
       IN  /\ heap' = IF o <= Len(heap) THEN [heap EXCEPT ![o] = placed] ELSE Append(heap, placed)
           /\ orders' = [orders EXCEPT ![id] = o]
           /\ futures' = Append(futures, NewFuture)
           /\ submitted_future' = [submitted_future EXCEPT ![id] = f]
           /\ lastOp' = [NoOp EXCEPT !.op = "place_order",
                                     !.allocated = IF ord["order_id"] = 0 THEN id ELSE 0,
                                     !.sent = <<PlaceOrderMessage(o, id, orders, submitted_future)>>]
    /\ UNCHANGED <<next_order_id, version, mdvars, oovars>>

\* Lines 93-100 on the Order object o whose attributes are ord, called from op.
Place(o, ord, op) ==
    /\ Len(futures) < MaxPlace
    /\ o \in 1..(Len(heap) + 1)
    /\ o <= MaxObjs
    /\ LET id == PlacedId(ord)
           placed == [ord EXCEPT !["order_id"] = id]
           f == Len(futures) + 1
           orders1 == [orders EXCEPT ![id] = o]
           submitted1 == [submitted_future EXCEPT ![id] = f]
       IN  /\ heap' = IF o <= Len(heap) THEN [heap EXCEPT ![o] = placed] ELSE Append(heap, placed)
           /\ orders' = orders1
           /\ futures' = Append(futures, NewFuture)
           /\ submitted_future' = submitted1
           /\ lastOp' = [NoOp EXCEPT !.op = op,
                                     !.allocated = IF ord["order_id"] = 0 THEN id ELSE 0,
                                     !.sent = <<PlaceOrderMessage(o, id, orders1, submitted1)>>]
    /\ UNCHANGED <<next_order_id, version, mdvars, oovars>>

\* place_order(order), for an Order just constructed (o = Len(heap) + 1) or one
\* the client already holds.
PlaceOrder(o) ==
    /\ o \in 1..(Len(heap) + 1)
    /\ Place(o, IF o <= Len(heap) THEN heap[o] ELSE NewOrder, "place_order")

\* ------------------------------- create_market_order / create_limit_order
\* Action, OrderType and TimeInForce members, and the instrument of the calls.
BUY == 1
SELL == 2
MARKET == 1
LIMIT == 2
GOOD_TILL_CANCEL == 1
INSTRUMENT == 1

\* Quantities, limit prices (in cents) and action arguments (0: None) of the calls.
Quantities == {-100, 0, 100}
Limits == {1337}
ActionArgs == {0, SELL}

Abs(x) == IF x < 0 THEN -x ELSE x

\* Faulty variant of DerivedAction: every order is a buy.
DerivedActionAlwaysBuy(quantity) == BUY

\* Lines 60 and 81: the action of an order created without one.
DerivedAction(quantity) == IF quantity > 0 THEN BUY ELSE SELL

\* Lines 59-64 and 80-85.
WithActionAndQuantity(ord, quantity, action) ==
    IF action = 0
    THEN [ord EXCEPT !["action"] = DerivedAction(quantity),
                     !["total_quantity"] = Abs(quantity)]
    ELSE [ord EXCEPT !["action"] = action, !["total_quantity"] = quantity]

\* Lines 66-69 and 87-90: place the new order, or hand it back in a future that
\* is done already.
PlaceOrWrap(ord, place, op) ==
    LET o == Len(heap) + 1
    IN  IF place
        THEN Place(o, ord, op)
        ELSE /\ Len(futures) < MaxPlace
             /\ o <= MaxObjs
             /\ heap' = Append(heap, ord)
             /\ futures' = Append(futures, [NewFuture EXCEPT !.state = "result", !.result = o])
             /\ lastOp' = [NoOp EXCEPT !.op = op]
             /\ UNCHANGED <<orders, submitted_future, next_order_id, version, mdvars, oovars>>

\* create_market_order(instrument, quantity, action, place=...)
CreateMarketOrder(quantity, action, place) ==
    /\ quantity \in Quantities
    /\ PlaceOrWrap(WithActionAndQuantity([NewOrder EXCEPT !["instrument"] = INSTRUMENT,
                                                          !["order_type"] = MARKET,
                                                          !["time_in_force"] = GOOD_TILL_CANCEL],
                                         quantity, action),
                   place, "create_market_order")

\* create_limit_order(instrument, quantity, limit, action, place=...)
CreateLimitOrder(quantity, limit, action, place) ==
    /\ quantity \in Quantities
    /\ PlaceOrWrap(WithActionAndQuantity([NewOrder EXCEPT !["instrument"] = INSTRUMENT,
                                                          !["order_type"] = LIMIT,
                                                          !["limit_price"] = limit,
                                                          !["time_in_force"] = GOOD_TILL_CANCEL],
                                         quantity, action),
                   place, "create_limit_order")

\* ------------------------------------------------------ _handle_order_status
\* The status "Submitted".
SUBMITTED == 5

\* The payload of the status push ("Submitted", 0, 100, 0.0, perm_id, 0, 0,
\* client_id, "") with market_cap_price left at its default, by argument.
SubmittedPush == 3

SubmittedArgs == <<SUBMITTED, 0, 100, 0, 7, 0, 0, 1, 0, 0>>

\* The value the push carries for the k-th attribute of StatusAttrs: the server
\* reports the same payload for an order in both kinds of push.
StatusArg(v, k) == IF v = SubmittedPush THEN SubmittedArgs[k] ELSE v

RECURSIVE AssignStatus(_, _, _)
AssignStatus(k, ord, v) ==
    IF k > Len(StatusAttrs) THEN ord
    ELSE AssignStatus(k + 1, [ord EXCEPT ![StatusAttrs[k]] = StatusArg(v, k)], v)

\* Lines 106-107: the record the status push works on (0: the push is dropped).
StatusTarget(id) == orders[id]

\* Faulty variant of HandleOrderStatus: a push for an id without a record makes one.
HandleOrderStatusMaterializes(id, v) ==
    LET known == orders[id] # 0
        o == IF known THEN orders[id] ELSE Len(heap) + 1
        start == IF known THEN heap[o] ELSE [NewOrder EXCEPT !["order_id"] = id]
        f == submitted_future[id]
    IN  /\ o <= MaxObjs
        /\ orders' = [orders EXCEPT ![id] = o]
        /\ heap' = IF known THEN [heap EXCEPT ![o] = AssignStatus(1, start, v)]
                   ELSE Append(heap, AssignStatus(1, start, v))
        /\ submitted_future' = Pop(submitted_future, id)
        /\ futures' = IF f # 0 THEN SetResult(futures, f, o) ELSE futures
        /\ lastOp' = [NoOp EXCEPT !.op = "order_status", !.notified = TRUE,
                                  !.raised = Raises(futures, f)]
        /\ UNCHANGED <<next_order_id, version, mdvars, oovars>>

HandleOrderStatus(id, v) ==
    LET o == StatusTarget(id)
        f == submitted_future[id]
    IN  /\ IF o = 0
           THEN /\ UNCHANGED <<heap, submitted_future, futures>>
                /\ lastOp' = [NoOp EXCEPT !.op = "order_status"]
           ELSE /\ heap' = [heap EXCEPT ![o] = AssignStatus(1, heap[o], v)]
                /\ submitted_future' = Pop(submitted_future, id)
                /\ futures' = IF f # 0 THEN SetResult(futures, f, o) ELSE futures
                /\ lastOp' = [NoOp EXCEPT !.op = "order_status", !.notified = TRUE,
                                          !.raised = Raises(futures, f)]
        /\ UNCHANGED <<orders, next_order_id, version, mdvars, oovars>>

\* -------------------------------------------------------- _handle_open_order
\* Lines 135-137: the record the push works on, made and registered if absent.
OpenOrderTarget(id) == IF orders[id] # 0 THEN orders[id] ELSE Len(heap) + 1

\* Faulty variant of OpenOrderLedger: the new record is not put in the ledger.
OpenOrderLedgerForgets(id) == orders

OpenOrderLedger(id) == [orders EXCEPT ![id] = OpenOrderTarget(id)]

\* Faulty variant of HandleOpenOrder: the future is taken from the map before the message
\* is decoded.
HandleOpenOrderPopsFirst(id, msg) ==
    LET o == OpenOrderTarget(id)
        known == o <= Len(heap)
        start == IF known THEN heap[o] ELSE [NewOrder EXCEPT !["order_id"] = id]
        st == AssignmentsOf(msg, version, id)
        after == Assigned(start, st)
        f == submitted_future[id]
    IN  /\ o <= MaxObjs
        /\ orders' = OpenOrderLedger(id)
        /\ heap' = IF known THEN [heap EXCEPT ![o] = after] ELSE Append(heap, after)
        /\ submitted_future' = Pop(submitted_future, id)
        /\ IF st.raised # ""
           THEN /\ UNCHANGED futures
                /\ lastOp' = [NoOp EXCEPT !.op = "open_order", !.read = st.read,
                                          !.raised = st.raised]
           ELSE /\ futures' = IF f # 0 THEN SetResult(futures, f, o) ELSE futures
                /\ lastOp' = [NoOp EXCEPT !.op = "open_order", !.read = st.read,
                                          !.raised = Raises(futures, f),
                                          !.notified = (Raises(futures, f) = "")]
        /\ UNCHANGED <<next_order_id, version, mdvars, oovars>>

HandleOpenOrder(id, msg) ==
    LET o == OpenOrderTarget(id)
        known == o <= Len(heap)
        start == IF known THEN heap[o] ELSE [NewOrder EXCEPT !["order_id"] = id]
        st == AssignmentsOf(msg, version, id)
        after == Assigned(start, st)
        f == submitted_future[id]
    IN  /\ o <= MaxObjs
        /\ orders' = OpenOrderLedger(id)
        /\ heap' = IF known THEN [heap EXCEPT ![o] = after] ELSE Append(heap, after)
        /\ IF st.raised # ""
           THEN /\ UNCHANGED <<submitted_future, futures>>
                /\ lastOp' = [NoOp EXCEPT !.op = "open_order", !.read = st.read,
                                          !.raised = st.raised]
           ELSE /\ submitted_future' = Pop(submitted_future, id)
                /\ futures' = IF f # 0 THEN SetResult(futures, f, o) ELSE futures
                /\ lastOp' = [NoOp EXCEPT !.op = "open_order", !.read = st.read,
                                          !.raised = Raises(futures, f),
                                          !.notified = (Raises(futures, f) = "")]
        /\ UNCHANGED <<next_order_id, version, mdvars, oovars>>

\* ---------------------------------------------------- _handle_next_valid_id
HandleNextValidId(n) ==
    /\ next_order_id' = n
    /\ lastOp' = [NoOp EXCEPT !.op = "next_valid_id"]
    /\ UNCHANGED <<orders, heap, submitted_future, futures, version, mdvars, oovars>>

\* ---------------------------------------------------------- _handle_err_msg
\* Faulty variant of HandleErrMsg: the entry is looked up and left in the map.
HandleErrMsgKeepsEntry(id, err) ==
    LET f == submitted_future[id]
    IN  /\ futures' = IF f # 0 THEN SetException(futures, f, err) ELSE futures
        /\ lastOp' = [NoOp EXCEPT !.op = "err_msg", !.delegated = (f = 0),
                                  !.raised = Raises(futures, f)]
        /\ UNCHANGED <<orders, heap, next_order_id, submitted_future, version, mdvars, oovars>>

HandleErrMsg(id, err) ==
    LET f == submitted_future[id]
    IN  /\ submitted_future' = Pop(submitted_future, id)
        /\ futures' = IF f # 0 THEN SetException(futures, f, err) ELSE futures
        /\ lastOp' = [NoOp EXCEPT !.op = "err_msg", !.delegated = (f = 0),
                                  !.raised = Raises(futures, f)]
        /\ UNCHANGED <<orders, heap, next_order_id, version, mdvars, oovars>>

\* ------------------------------------------------------------------ caller
\* The caller gives up on the future place_order returned (Future.cancel()).
CancelFuture(f) ==
    /\ f \in 1..Len(futures)
    /\ futures[f].state = "pending"
    /\ futures' = [futures EXCEPT ![f].state = "cancelled"]
    /\ lastOp' = [NoOp EXCEPT !.op = "cancel"]
    /\ UNCHANGED <<orders, heap, next_order_id, submitted_future, version, mdvars, oovars>>

\* -------------------------------------------------------- get_open_orders
\* REQ_ALL_OPEN_ORDERS, version 1 (line 43).
ReqAllOpenOrders == [msg |-> "REQ_ALL_OPEN_ORDERS", msg_version |-> 1]

\* A future of get_open_orders. Its result is self.__orders.values() (line 48):
\* a view of the ledger, which shows what the ledger holds when it is read.
NewOpenOrdersFuture == [state |-> "pending", view |-> FALSE]

\* The order objects a view of ledger ord shows.
Values(ord) == {ord[k] : k \in {i \in OrderIds : ord[i] # 0}}

\* What the awaiter of open-orders future f reads from its result.
ResultOf(futs, f, ord) == IF futs[f].view THEN Values(ord) ELSE {}

\* Faulty variant of GetOpenOrders: every call makes a future of its own.
GetOpenOrdersAlwaysNew ==
    /\ Len(open_orders_futures) < MaxOpenOrders
    /\ open_orders_futures' = Append(open_orders_futures, NewOpenOrdersFuture)
    /\ open_orders_future' = Len(open_orders_futures) + 1
    /\ lastOp' = [NoOp EXCEPT !.op = "get_open_orders", !.sent = <<ReqAllOpenOrders>>]
    /\ UNCHANGED <<orders, heap, next_order_id, submitted_future, futures, version, mdvars>>

GetOpenOrders ==
    /\ IF open_orders_future = 0
       THEN /\ Len(open_orders_futures) < MaxOpenOrders
            /\ open_orders_futures' = Append(open_orders_futures, NewOpenOrdersFuture)
            /\ open_orders_future' = Len(open_orders_futures) + 1
       ELSE UNCHANGED oovars
    /\ lastOp' = [NoOp EXCEPT !.op = "get_open_orders", !.sent = <<ReqAllOpenOrders>>]
    /\ UNCHANGED <<orders, heap, next_order_id, submitted_future, futures, version, mdvars>>

\* ------------------------------------------------- _handle_open_order_end
\* set_result on a future that is done raises InvalidStateError, and line 49 is
\* not reached.
HandleOpenOrderEnd ==
    LET f == open_orders_future
    IN  /\ IF f = 0
           THEN /\ UNCHANGED oovars
                /\ lastOp' = [NoOp EXCEPT !.op = "open_order_end"]
           ELSE IF open_orders_futures[f].state = "pending"
           THEN /\ open_orders_futures' =
                      [open_orders_futures EXCEPT ![f] = [state |-> "result", view |-> TRUE]]
                /\ open_orders_future' = 0
                /\ lastOp' = [NoOp EXCEPT !.op = "open_order_end"]
           ELSE /\ UNCHANGED oovars
                /\ lastOp' = [NoOp EXCEPT !.op = "open_order_end",
                                          !.raised = "InvalidStateError"]
        /\ UNCHANGED <<orders, heap, next_order_id, submitted_future, futures, version, mdvars>>

\* The caller gives up on the future get_open_orders returned (Future.cancel()).
CancelOpenOrdersFuture(f) ==
    /\ f \in 1..Len(open_orders_futures)
    /\ open_orders_futures[f].state = "pending"
    /\ open_orders_futures' = [open_orders_futures EXCEPT ![f].state = "cancelled"]
    /\ lastOp' = [NoOp EXCEPT !.op = "cancel_open_orders"]
    /\ UNCHANGED <<orders, heap, next_order_id, submitted_future, futures, version, mdvars,
                   open_orders_future>>

Next ==
    \/ \E o \in 1..MaxObjs : PlaceOrder(o)
    \/ \E id \in OrderIds, v \in StatusPayloads : HandleOrderStatus(id, v)
    \/ \E id \in OrderIds, msg \in LifecycleMessages : HandleOpenOrder(id, msg)
    \/ \E n \in OrderIds : HandleNextValidId(n)
    \/ \E id \in OrderIds, err \in Errors : HandleErrMsg(id, err)
    \/ \E f \in 1..MaxPlace : CancelFuture(f)

Spec == Init /\ [][Next]_vars

\* The open-order pushes and error messages delivered while open-orders requests
\* are in flight: the plain layout without a presence flag, and one rejection.
PlainMessages == {m \in LifecycleMessages : m.flags["combo legs"] = 0}

Rejections == {err \in Errors : err[1] = 201}

\* The session with open-orders requests in flight.
NextOpenOrders ==
    \/ GetOpenOrders
    \/ HandleOpenOrderEnd
    \/ \E f \in 1..MaxOpenOrders : CancelOpenOrdersFuture(f)
    \/ \E o \in 1..MaxObjs : PlaceOrder(o)
    \/ \E id \in OrderIds, v \in StatusPayloads : HandleOrderStatus(id, v)
    \/ \E id \in OrderIds, msg \in PlainMessages : HandleOpenOrder(id, msg)
    \/ \E n \in OrderIds : HandleNextValidId(n)
    \/ \E id \in OrderIds, err \in Rejections : HandleErrMsg(id, err)

SpecOpenOrders == Init /\ [][NextOpenOrders]_vars

\* Orders made by the create calls, and the server's acknowledgement.
NextCreate ==
    \/ \E q \in Quantities, a \in ActionArgs, place \in BOOLEAN : CreateMarketOrder(q, a, place)
    \/ \E q \in Quantities, l \in Limits, a \in ActionArgs, place \in BOOLEAN :
          CreateLimitOrder(q, l, a, place)
    \/ \E id \in OrderIds : HandleOrderStatus(id, SubmittedPush)
    \/ \E n \in OrderIds : HandleNextValidId(n)

SpecCreate == Init /\ [][NextCreate]_vars

\* The decoder on every message layout and version.
NextDecode ==
    \E id \in OrderIds, msg \in OpenOrderMessages : HandleOpenOrder(id, msg)

SpecDecode == InitDecode /\ [][NextDecode]_vars

\* ----------------------------------------- MarketDataSubscriptionManager
\* The tick-type field of a subscribe message: the declared types in ascending
\* order ('100,101' in test_subscribe, line 36).
RECURSIVE TickTypeField(_)
TickTypeField(S) ==
    IF S = {} THEN << >>
    ELSE LET m == CHOOSE x \in S : \A y \in S : x <= y
         IN  <<m>> \o TickTypeField(S \ {m})

\* REQ_MKT_DATA, version 11 (test_subscribe, lines 36 and 40).
ReqMktData(id, inst, S) ==
    [msg |-> "REQ_MKT_DATA", msg_version |-> 11, request_id |-> id, instrument |-> inst,
     snapshot |-> FALSE, tick_types |-> TickTypeField(S), regulatory_snapshot |-> FALSE]

\* CANCEL_MKT_DATA, version 2 (test_subscribe, line 81).
CancelMktData(id) == [msg |-> "CANCEL_MKT_DATA", msg_version |-> 2, request_id |-> id]

\* What the remote side holds after it got message m: a subscribe (re)places the
\* instrument's subscription, a cancel ends the subscription of its request id.
Transmit(w, m) ==
    IF m.msg = "REQ_MKT_DATA"
    THEN [w EXCEPT ![m.instrument] = [request_id |-> m.request_id, tick_types |-> m.tick_types]]
    ELSE [i \in DOMAIN w |-> IF w[i].request_id = m.request_id THEN NoSubscription ELSE w[i]]

\* Interest in an instrument's market data: a handler is registered and the
\* declared tick-type set is not empty.
Wanted(rec) == rec.on_market_data > 0 /\ rec.market_data_tick_types # {}

\* Faulty variant of NeedsSubscribe: every change with interest sends a subscribe.
NeedsSubscribeAlways(rec) == Wanted(rec)

\* The diff of declared interest against what the wire has.
NeedsSubscribe(rec) ==
    /\ Wanted(rec)
    /\ \/ rec.active_request_id = 0
       \/ rec.market_data_tick_types # rec.last_sent_tick_types

\* Faulty variant of NeedsUnsubscribe: a subscription is never cancelled.
NeedsUnsubscribeNever(rec) == FALSE

NeedsUnsubscribe(rec) == ~Wanted(rec) /\ rec.active_request_id # 0

\* The manager's reaction to a change that leaves instrument inst as rec.
UpdateSubscription(inst, rec, op) ==
    /\ IF NeedsSubscribe(rec)
       THEN LET id == IF rec.active_request_id # 0 THEN rec.active_request_id
                      ELSE next_request_id
            IN  /\ id < FIRST_REQUEST_ID + MaxRequests
                /\ instruments' =
                      [instruments EXCEPT ![inst] =
                          [rec EXCEPT !.active_request_id = id,
                                      !.last_sent_tick_types = rec.market_data_tick_types]]
                /\ next_request_id' = IF rec.active_request_id = 0 THEN next_request_id + 1
                                      ELSE next_request_id
                /\ mdOp' = [op |-> op, instrument |-> inst,
                            sent |-> <<ReqMktData(id, inst, rec.market_data_tick_types)>>, raised |-> ""]
                /\ wire' = Transmit(wire, ReqMktData(id, inst, rec.market_data_tick_types))
       ELSE IF NeedsUnsubscribe(rec)
       THEN /\ instruments' = [instruments EXCEPT ![inst] = [rec EXCEPT !.active_request_id = 0]]
            /\ mdOp' = [op |-> op, instrument |-> inst,
                        sent |-> <<CancelMktData(rec.active_request_id)>>, raised |-> ""]
            /\ wire' = Transmit(wire, CancelMktData(rec.active_request_id))
            /\ UNCHANGED next_request_id
       ELSE /\ instruments' = [instruments EXCEPT ![inst] = rec]
            /\ mdOp' = [op |-> op, instrument |-> inst, sent |-> << >>, raised |-> ""]
            /\ UNCHANGED <<next_request_id, wire>>
    /\ UNCHANGED <<ordvars, tickvars, fetchvars>>

\* instrument.market_data_tick_types = S
SetTickTypes(inst, S) ==
    /\ S \subseteq TickTypes
    /\ UpdateSubscription(inst, [instruments[inst] EXCEPT !.market_data_tick_types = S],
                          "set_tick_types")

\* instrument.on_market_data += handler
AddHandler(inst) ==
    /\ instruments[inst].on_market_data < MaxHandlers
    /\ UpdateSubscription(inst, [instruments[inst] EXCEPT !.on_market_data = @ + 1],
                          "add_handler")

\* instrument.on_market_data -= handler
RemoveHandler(inst) ==
    /\ instruments[inst].on_market_data > 0
    /\ UpdateSubscription(inst, [instruments[inst] EXCEPT !.on_market_data = @ - 1],
                          "remove_handler")

NextMD ==
    \/ \E inst \in Instruments, S \in SUBSET TickTypes : SetTickTypes(inst, S)
    \/ \E inst \in Instruments : AddHandler(inst)
    \/ \E inst \in Instruments : RemoveHandler(inst)

SpecMD == Init /\ [][NextMD]_vars

\* ------------------------------------------------------------- tick pushes
\* The instrument that owns request id (0: none).
Owner(id) ==
    IF \E i \in Instruments : instruments[i].active_request_id = id
    THEN CHOOSE i \in Instruments : instruments[i].active_request_id = id
    ELSE 0

\* The size tick type a price tick type is paired with ("" for none): a
\* DelayedAsk price comes with the DelayedAskSize (lines 47-51).
PairedSize(t) == IF t = "DelayedAsk" THEN "DelayedAskSize" ELSE ""

\* What a TICK_STRING push stores: the text of the value (line 61: 1 gives "1").
Text(v) == [text |-> v]

\* Faulty variant of TickPriceEntries: the paired size goes first.
TickPriceEntriesSizeFirst(t, price, size) ==
    IF PairedSize(t) = "" THEN << <<t, price>> >>
    ELSE << <<PairedSize(t), size>>, <<t, price>> >>

\* The (tick type, value) pairs of a TICK_PRICE push, in decoding order
\* (lines 47-51 and 69).
TickPriceEntries(t, price, size) ==
    IF PairedSize(t) = "" THEN << <<t, price>> >>
    ELSE << <<t, price>>, <<PairedSize(t), size>> >>

RECURSIVE Stored(_, _)
Stored(data, entries) ==
    IF entries = << >> THEN data
    ELSE Stored([data EXCEPT ![Head(entries)[1]] = Head(entries)[2]], Tail(entries))

\* The entries of a push go to the owner of its request id: each value is
\* stored, then the handlers are called with its tick type.
Dispatch(id, entries, op) ==
    LET inst == Owner(id)
    IN  /\ inst # 0
        /\ Len(received[inst]) < MaxTicks
        /\ tick_data' = [tick_data EXCEPT ![inst] = Stored(@, entries)]
        /\ received' = [received EXCEPT
                           ![inst] = @ \o [k \in 1..Len(entries) |-> entries[k][1]]]
        /\ mdOp' = [op |-> op, instrument |-> inst, sent |-> << >>, raised |-> ""]
        /\ UNCHANGED <<ordvars, instruments, next_request_id, wire, market_info, fetchvars>>

\* Incoming.TICK_PRICE (line 47)
TickPrice(id, t, price, size) ==
    /\ t \in {"DelayedAsk", "MarkPrice"}
    /\ Dispatch(id, TickPriceEntries(t, price, size), "tick_price")

\* Incoming.TICK_SIZE (line 63)
TickSize(id, t, size) ==
    /\ t \in {"BidSize", "DelayedAskSize"}
    /\ Dispatch(id, << <<t, size>> >>, "tick_size")

\* Incoming.TICK_GENERIC (line 53)
TickGeneric(id, t, v) ==
    /\ t = "MarkPrice"
    /\ Dispatch(id, << <<t, v>> >>, "tick_generic")

\* Incoming.TICK_STRING (line 58)
TickString(id, t, v) ==
    /\ t = "Shortable"
    /\ Dispatch(id, << <<t, Text(v)>> >>, "tick_string")

\* Incoming.MARKET_DATA_TYPE (line 43)
MarketDataType(id, timeliness) ==
    LET inst == Owner(id)
    IN  /\ inst # 0
        /\ market_info' = [market_info EXCEPT ![inst].market_data_timeliness = timeliness]
        /\ mdOp' = [op |-> "market_data_type", instrument |-> inst, sent |-> << >>, raised |-> ""]
        /\ UNCHANGED <<ordvars, instruments, next_request_id, wire, tick_data, received,
                       fetchvars>>

\* Incoming.TICK_REQ_PARAMS (line 73)
TickReqParams(id, min_tick, exchange, permissions) ==
    LET inst == Owner(id)
    IN  /\ inst # 0
        /\ market_info' = [market_info EXCEPT ![inst].minimum_tick = min_tick,
                                              ![inst].bbo_exchange = exchange,
                                              ![inst].snapshot_permissions = permissions]
        /\ mdOp' = [op |-> "tick_req_params", instrument |-> inst, sent |-> << >>, raised |-> ""]
        /\ UNCHANGED <<ordvars, instruments, next_request_id, wire, tick_data, received,
                       fetchvars>>

\* A subscription is set up, then the server pushes.
NextTicks ==
    \/ \E inst \in Instruments : SetTickTypes(inst, TickTypes)
    \/ \E inst \in Instruments : AddHandler(inst)
    \/ \E id \in RequestIds, t \in TickNames, p \in TickValues, sz \in TickValues :
          TickPrice(id, t, p, sz)
    \/ \E id \in RequestIds, t \in TickNames, sz \in TickValues : TickSize(id, t, sz)
    \/ \E id \in RequestIds, t \in TickNames, v \in TickValues : TickGeneric(id, t, v)
    \/ \E id \in RequestIds, t \in TickNames, v \in TickValues : TickString(id, t, v)
    \/ \E id \in RequestIds, tl \in Timeliness : MarketDataType(id, tl)
    \/ \E id \in RequestIds, p \in TickValues : TickReqParams(id, p, p, p)

SpecTicks == Init /\ [][NextTicks]_vars


\* ------------------------------------------------------- one-shot fetch
\* REQ_MKT_DATA for a snapshot (test_fetch, line 91).
ReqSnapshot(id, inst, regulatory_snapshot) ==
    [msg |-> "REQ_MKT_DATA", msg_version |-> 11, request_id |-> id, instrument |-> inst,
     snapshot |-> TRUE, tick_types |-> << >>, regulatory_snapshot |-> regulatory_snapshot]

\* Faulty variant of Outdated: no feature is refused.
OutdatedNever(regulatory_snapshot, v) == FALSE

\* The request needs a feature the negotiated version v does not have
\* (test_regulatory_snapshot, lines 99-102).
Outdated(regulatory_snapshot, v) == regulatory_snapshot /\ v < REQ_SMART_COMPONENTS

\* client.get_market_data(instrument, regulatory_snapshot=...);
\* instrument.fetch_market_data() is the call without regulatory snapshot.
GetMarketData(inst, regulatory_snapshot) ==
    /\ IF Outdated(regulatory_snapshot, version)
       THEN /\ mdOp' = [op |-> "get_market_data", instrument |-> inst, sent |-> << >>,
                        raised |-> "OutdatedServerError"]
            /\ UNCHANGED <<next_request_id, fetchvars>>
       ELSE LET id == next_request_id
                f == Len(snapshot_futures) + 1
            IN  /\ id \in RequestIds
                /\ snapshot_futures' = Append(snapshot_futures,
                                              [state |-> "pending", result |-> 0,
                                               instrument |-> inst])
                /\ snapshot_future' = [snapshot_future EXCEPT ![id] = f]
                /\ next_request_id' = id + 1
                /\ mdOp' = [op |-> "get_market_data", instrument |-> inst,
                            sent |-> <<ReqSnapshot(id, inst, regulatory_snapshot)>>,
                            raised |-> ""]
    /\ UNCHANGED <<ordvars, instruments, wire, tickvars>>

\* Faulty variant of TickSnapshotEnd: the entry is looked up and left in the map.
TickSnapshotEndKeepsEntry(id) ==
    LET f == snapshot_future[id]
    IN  /\ snapshot_futures' = IF f # 0 /\ snapshot_futures[f].state = "pending"
                               THEN [snapshot_futures EXCEPT ![f].state = "result", ![f].result = id]
                               ELSE snapshot_futures
        /\ mdOp' = [op |-> "tick_snapshot_end", sent |-> << >>, raised |-> "",
                    instrument |-> IF f # 0 THEN snapshot_futures[f].instrument ELSE 0]
        /\ UNCHANGED <<ordvars, instruments, next_request_id, wire, tickvars, snapshot_future>>

\* Incoming.TICK_SNAPSHOT_END (test_fetch, line 93): the entry of the request id
\* is retired and its future, if there is one, resolved.
TickSnapshotEnd(id) ==
    LET f == snapshot_future[id]
    IN  /\ snapshot_future' = Pop(snapshot_future, id)
        /\ snapshot_futures' = IF f # 0
                               THEN [snapshot_futures EXCEPT ![f].state = "result", ![f].result = id]
                               ELSE snapshot_futures
        /\ mdOp' = [op |-> "tick_snapshot_end", sent |-> << >>, raised |-> "",
                    instrument |-> IF f # 0 THEN snapshot_futures[f].instrument ELSE 0]
        /\ UNCHANGED <<ordvars, instruments, next_request_id, wire, tickvars>>

NextFetch ==
    \/ \E inst \in Instruments, S \in SUBSET TickTypes : SetTickTypes(inst, S)
    \/ \E inst \in Instruments : AddHandler(inst)
    \/ \E inst \in Instruments, r \in BOOLEAN : GetMarketData(inst, r)
    \/ \E id \in RequestIds : TickSnapshotEnd(id)

SpecFetch == InitFetch /\ [][NextFetch]_vars

\* ================================================================== claims
\* The steps of the handlers, for the properties below.
StatusStep(id, v) == lastOp'.op = "order_status" /\ HandleOrderStatus(id, v)
OpenOrderStep(id, msg) == lastOp'.op = "open_order" /\ HandleOpenOrder(id, msg)
ErrStep(id, err) == lastOp'.op = "err_msg" /\ HandleErrMsg(id, err)
PlaceStep(o) == lastOp'.op = "place_order" /\ PlaceOrder(o)

Done(f) == futures[f].state \in {"result", "exception"}

\* The attributes a status push assigns, as the push for payload v sets them.
HasStatus(ord, v) == \A k \in DOMAIN StatusAttrs : ord[StatusAttrs[k]] = StatusArg(v, k)

\* The parameters an open-order push copies, as message msg for id sets them.
HasOpenOrderArgs(ord, msg, id) ==
    \A k \in DOMAIN OpenOrderArgs : ord[OpenOrderArgs[k]] = OpenOrderArg(msg, id, OpenOrderArgs[k])

\* Whether the open-order message msg decodes to its end under version v.
Decodable(msg, v) ==
    \A i \in DOMAIN OpenOrderFields :
        (OpenOrderFields[i].kind = "raise" /\ Present(OpenOrderFields[i], v, msg.message_version))
            => msg.flags[OpenOrderFields[i].attr] = 0

\* What a push for an id with a registered record does to the placement future:
\* a pending one is resolved with the record and retired, none is touched when
\* the id has no entry, and nothing is raised.
ResolvesOnce(id) ==
    LET f == submitted_future[id]
    IN  /\ submitted_future' = [submitted_future EXCEPT ![id] = 0]
        /\ (f # 0 /\ futures[f].state = "pending")
              => /\ futures' = [futures EXCEPT ![f].state = "result", ![f].result = orders[id]]
                 /\ lastOp'.raised = ""
        /\ f = 0 => (futures' = futures /\ lastOp'.raised = "")

\* C1 (as amended): for an id with a pending placement future, a status push and an
\* open-order push that decodes to its end, in either order, resolve the future
\* exactly once, by whichever is delivered first, with the order record; the later
\* push finds no entry, leaves every future alone and still updates the record.
C1_AtMostOnceResolution ==
    [][\A id \in OrderIds :
          /\ \A v \in StatusPayloads :
                (orders[id] # 0 /\ StatusStep(id, v))
                   => ResolvesOnce(id) /\ HasStatus(heap'[orders[id]], v)
          /\ \A msg \in LifecycleMessages :
                (orders[id] # 0 /\ Decodable(msg, version) /\ OpenOrderStep(id, msg))
                   => ResolvesOnce(id) /\ HasOpenOrderArgs(heap'[orders[id]], msg, id)
      ]_vars

\* C1 witness: a future resolved with a record that both kinds of push have
\* updated, its entry retired, the last push being an open-order push.
C1_Witness ==
    \E id \in OrderIds, f \in DOMAIN futures :
        /\ futures[f].state = "result" /\ futures[f].result = orders[id]
        /\ submitted_future[id] = 0
        /\ heap[orders[id]]["filled"] = 1 /\ heap[orders[id]]["action"] = 1
        /\ lastOp.op = "open_order" /\ lastOp.raised = "" /\ lastOp.notified

\* C1 as stated: the first push delivered for an id with a pending placement
\* future, of either kind, resolves that future.
C1_Original ==
    [][\A id \in OrderIds :
          LET f == submitted_future[id]
          IN  (/\ f # 0 /\ futures[f].state = "pending"
               /\ \/ \E v \in StatusPayloads : StatusStep(id, v)
                  \/ \E msg \in LifecycleMessages : OpenOrderStep(id, msg))
                 => futures'[f].state = "result"
      ]_vars

\* C2: an error message for an id whose placement future is pending rejects that
\* future with the message's code and text, removes the id's entry, and does not
\* reach the session's generic error handler.
C2_ErrorRoutedToPendingRequest ==
    [][\A id \in OrderIds, err \in Errors :
          LET f == submitted_future[id]
          IN  (f # 0 /\ futures[f].state = "pending" /\ ErrStep(id, err))
                 => /\ futures' = [futures EXCEPT ![f].state = "exception", ![f].code = err[1],
                                                   ![f].message = err[2]]
                    /\ submitted_future' = [submitted_future EXCEPT ![id] = 0]
                    /\ ~lastOp'.delegated
                    /\ lastOp'.raised = ""
      ]_vars

\* C2 witness: an error message has just rejected a future with code 399.
C2_Witness ==
    /\ lastOp.op = "err_msg" /\ ~lastOp.delegated /\ lastOp.raised = ""
    /\ \E f \in DOMAIN futures :
          /\ futures[f].state = "exception"
          /\ futures[f].code = 399 /\ futures[f].message = "Order message warning"

\* C3: a future resolved by a push or failed by an error is no longer registered,
\* an id without an entry gets one only from place_order, and an error message
\* for an id without an entry changes no future and goes to the generic handler.
C3_StaleIdIsolation ==
    [][/\ \A id \in OrderIds :
             submitted_future'[id] # 0
                => futures'[submitted_future'[id]].state \notin {"result", "exception"}
       /\ \A id \in OrderIds :
             (submitted_future[id] = 0 /\ submitted_future'[id] # 0)
                => lastOp'.op = "place_order"
       /\ \A id \in OrderIds, err \in Errors :
             (submitted_future[id] = 0 /\ ErrStep(id, err))
                => futures' = futures /\ lastOp'.delegated /\ lastOp'.raised = ""
      ]_vars

\* C3 witness: every id has a resolved placement future and no entry, and an
\* error message has just been handed to the generic handler.
C3_Witness ==
    /\ lastOp.op = "err_msg" /\ lastOp.delegated
    /\ \A id \in OrderIds :
          /\ submitted_future[id] = 0
          /\ \E f \in DOMAIN futures :
                futures[f].state = "result" /\ futures[f].result = orders[id]

\* C4 as stated: two place_order calls in a row on id-less orders get strictly
\* increasing ids, an id taken from the counter is not below the counter's
\* announced floor, and place_order never lowers the counter.
C4_Original ==
    [][\A o \in 1..MaxObjs :
          (PlaceStep(o) /\ lastOp'.allocated # 0)
             => /\ lastOp.allocated # 0 => lastOp'.allocated > lastOp.allocated
                /\ lastOp'.allocated >= next_order_id
                /\ next_order_id' >= next_order_id
      ]_vars

\* C5: when place_order hands its message to the transport, the order is in the
\* ledger and a pending future is registered under its id; afterwards that entry
\* stays until a push or error for the id takes it (or place_order renews it),
\* and the future in it is pending unless the caller cancelled it.
C5_RegistrationBeforeTransmission ==
    [][/\ \A o \in 1..MaxObjs :
             PlaceStep(o)
                => /\ Len(lastOp'.sent) = 1
                   /\ LET m == lastOp'.sent[1]
                      IN  /\ m.order = o /\ m.ledger_at_send = o
                          /\ m.future_at_send = Len(futures) + 1
                          /\ orders'[m.order_id] = o
                          /\ submitted_future'[m.order_id] = m.future_at_send
                          /\ futures'[m.future_at_send].state = "pending"
       /\ \A id \in OrderIds :
             (submitted_future[id] # 0 /\ submitted_future'[id] # submitted_future[id])
                => lastOp'.op \in {"order_status", "open_order", "err_msg", "place_order"}
       /\ \A id \in OrderIds :
             (submitted_future'[id] # 0 /\ lastOp'.op \notin {"cancel", "place_order"})
                => futures'[submitted_future'[id]].state = futures[submitted_future'[id]].state
      ]_vars

\* C5 witness: place_order has just sent its message, with the order and the
\* pending future registered at that moment.
C5_Witness ==
    /\ lastOp.op = "place_order" /\ Len(lastOp.sent) = 1
    /\ lastOp.sent[1].ledger_at_send = lastOp.sent[1].order
    /\ lastOp.sent[1].future_at_send # 0
    /\ futures[lastOp.sent[1].future_at_send].state = "pending"

C7_OpenOrderMaterializesUnknownId ==
    [][\A id \in OrderIds, msg \in LifecycleMessages :
          (orders[id] = 0 /\ OpenOrderStep(id, msg))
             => /\ orders' = [orders EXCEPT ![id] = Len(heap) + 1]
                /\ Len(heap') = Len(heap) + 1
                /\ heap'[orders'[id]]["order_id"] = id
                /\ get_order(id)' = heap'[Len(heap) + 1]
                /\ HasOpenOrderArgs(get_order(id)', msg, id)
                /\ submitted_future[id] = 0
                /\ submitted_future' = submitted_future /\ futures' = futures
      ]_vars

\* C7 witness: an open-order push has made a record although nothing was placed.
C7_Witness ==
    /\ lastOp.op = "open_order" /\ futures = << >>
    /\ \E id \in OrderIds : orders[id] # 0 /\ get_order(id)["order_id"] = id

\* C8 as stated: cancelling the returned future leaves the entry in the map, and
\* the next push or error for the id is handled without raising, completing the
\* cancelled future being an ignored no-op.
C8_Original ==
    [][/\ lastOp'.op = "cancel" => submitted_future' = submitted_future
       /\ \A id \in OrderIds :
             LET f == submitted_future[id]
             IN  (/\ f # 0 /\ futures[f].state = "cancelled"
                  /\ \/ \E v \in StatusPayloads : StatusStep(id, v)
                     \/ \E msg \in LifecycleMessages : OpenOrderStep(id, msg)
                     \/ \E err \in Errors : ErrStep(id, err))
                    => lastOp'.raised # "InvalidStateError" /\ futures' = futures
      ]_vars

\* The decoder steps that test a presence flag, and the first of them that finds
\* its flag on the wire and set (0: none).
FlagSteps == {i \in DOMAIN OpenOrderFields : OpenOrderFields[i].kind = "raise"}

FirstFlagStep(msg, v) ==
    LET hit == {i \in FlagSteps : /\ Present(OpenOrderFields[i], v, msg.message_version)
                                  /\ msg.flags[OpenOrderFields[i].attr] # 0}
    IN  IF hit = {} THEN 0 ELSE CHOOSE i \in hit : \A j \in hit : i <= j

FirstFlagTable == {<<msg, v, FirstFlagStep(msg, v)>> : msg \in OpenOrderMessages, v \in Versions}

FirstFlag(msg, v) == (CHOOSE t \in FirstFlagTable : t[1] = msg /\ t[2] = v)[3]

\* The attributes the handler has not assigned when it reaches step i: neither an
\* argument of the handler nor the target of a read before i.
NotAssignedBefore(i) ==
    OrderAttrs \ (Range(OpenOrderArgs)
        \cup {OpenOrderFields[j].attr : j \in {k \in 1..(i - 1) : OpenOrderFields[k].kind = "set"}})

UntouchedTable == {<<i, NotAssignedBefore(i)>> : i \in FlagSteps}

Untouched(i) == (CHOOSE t \in UntouchedTable : t[1] = i)[2]

\* C9: an open-order push with a presence flag on the wire and set ends with
\* UnsupportedFeature naming the first such feature; the flag is the last token
\* read, and every attribute assigned only after it keeps its value.
C9_UnsupportedFeatureFailFast ==
    [][\A id \in OrderIds, msg \in OpenOrderMessages :
          LET i == FirstFlag(msg, version)
              before == IF orders[id] # 0 THEN heap[orders[id]] ELSE NewOrder
          IN  (lastOp'.op = "open_order" /\ i # 0 /\ OpenOrderStep(id, msg))
                 => /\ lastOp'.raised = OpenOrderFields[i].attr
                    /\ lastOp'.read = i
                    /\ ~lastOp'.notified
                    /\ \A a \in Untouched(i) : heap'[orders'[id]][a] = before[a]
      ]_vars

\* C9 witness: a push with the order-conditions flag has just been refused on a
\* record decoded before: the fields before the flag are the new push's, the
\* fields after it still the old ones.
C9_Witness ==
    /\ lastOp.op = "open_order" /\ lastOp.raised = "order conditions"
    /\ \E o \in DOMAIN heap : heap[o]["status"] = 2 /\ heap[o]["cash_quantity"] = 1

SetTickTypesStep(inst, S) == mdOp'.op = "set_tick_types" /\ SetTickTypes(inst, S)

\* C10: while an instrument has an active subscription, setting its declared
\* tick types to the set last sent sends nothing, and setting them to another
\* non-empty set sends exactly one subscribe message that carries the whole new
\* set under the active request id.
C10_IdempotentResubscription ==
    [][\A inst \in Instruments, S \in SUBSET TickTypes :
          LET rec == instruments[inst]
          IN  (rec.active_request_id # 0 /\ SetTickTypesStep(inst, S))
                 => /\ S = rec.last_sent_tick_types
                          => /\ mdOp'.sent = << >>
                             /\ instruments'[inst].active_request_id = rec.active_request_id
                    /\ (S # {} /\ S # rec.last_sent_tick_types)
                          => /\ Len(mdOp'.sent) = 1
                             /\ mdOp'.sent[1].msg = "REQ_MKT_DATA"
                             /\ mdOp'.sent[1].request_id = rec.active_request_id
                             /\ Range(mdOp'.sent[1].tick_types) = S
                             /\ Len(mdOp'.sent[1].tick_types) = Cardinality(S)
                             /\ instruments'[inst].last_sent_tick_types = S
      ]_vars

\* C10 witness: the tick types of an actively subscribed instrument have just
\* been set to the set last sent, and nothing went to the wire.
C10_Witness ==
    /\ mdOp.op = "set_tick_types" /\ mdOp.sent = << >>
    /\ instruments[mdOp.instrument].active_request_id # 0
    /\ instruments[mdOp.instrument].market_data_tick_types = {100}
    /\ instruments[mdOp.instrument].last_sent_tick_types = {100}

RemoveHandlerStep(inst) == mdOp'.op = "remove_handler" /\ RemoveHandler(inst)

\* The remote side holds, for instrument inst, the subscription the manager has
\* on record.
WireMatches(inst) ==
    LET rec == instruments[inst]
    IN  rec.active_request_id # 0
           => wire[inst] = [request_id |-> rec.active_request_id,
                            tick_types |-> TickTypeField(rec.last_sent_tick_types)]

\* C11: whenever an instrument has an active request id, the last subscribe sent
\* for it carried the recorded last-sent set and no cancel for that id followed;
\* when interest ends (last handler removed, or declared set emptied) while a
\* subscription is active, exactly one cancel for the active id is sent and the
\* active id is cleared.
C11_SubscriptionStateInvariant ==
    [][/\ \A inst \in Instruments : WireMatches(inst)'
       /\ \A inst \in Instruments :
             LET rec == instruments[inst]
             IN  (/\ rec.active_request_id # 0
                  /\ \/ rec.on_market_data = 1 /\ RemoveHandlerStep(inst)
                     \/ SetTickTypesStep(inst, {}))
                    => /\ mdOp'.sent = <<CancelMktData(rec.active_request_id)>>
                       /\ instruments'[inst].active_request_id = 0
                       /\ wire'[inst] = NoSubscription
      ]_vars

\* C11 witness: removing the last handler has just cancelled request 43.
C11_Witness ==
    /\ mdOp.op = "remove_handler" /\ mdOp.sent = <<CancelMktData(FIRST_REQUEST_ID)>>
    /\ instruments[mdOp.instrument].active_request_id = 0
    /\ instruments[mdOp.instrument].last_sent_tick_types = {100, 101}
    /\ wire[mdOp.instrument] = NoSubscription

TickPriceStep(id, t, p, sz) == mdOp'.op = "tick_price" /\ TickPrice(id, t, p, sz)
TickSizeStep(id, t, sz) == mdOp'.op = "tick_size" /\ TickSize(id, t, sz)
TickGenericStep(id, t, v) == mdOp'.op = "tick_generic" /\ TickGeneric(id, t, v)
TickStringStep(id, t, v) == mdOp'.op = "tick_string" /\ TickString(id, t, v)

\* The handlers of instrument i have been called with the tick types of ts, in
\* that order, after everything they were called with before.
NotifiedNext(i, ts) == received'[i] = received[i] \o ts

\* C12: a tick push for a subscribed request id stores its value under the
\* reported tick type and calls the handlers once with that type; a price push
\* with a paired size type stores both, the price type notified first, the size
\* type second; notifications of a push come after those of earlier pushes;
\* timeliness and request-parameter pushes update the instrument's fields and
\* notify nothing.
C12_TickDispatchOrdering ==
    [][\A id \in RequestIds :
          LET i == Owner(id)
          IN  i # 0 =>
              /\ \A t \in TickNames, p \in TickValues, sz \in TickValues :
                    TickPriceStep(id, t, p, sz)
                       => /\ tick_data'[i][t] = p
                          /\ IF PairedSize(t) = ""
                             THEN NotifiedNext(i, <<t>>)
                             ELSE /\ tick_data'[i][PairedSize(t)] = sz
                                  /\ NotifiedNext(i, <<t, PairedSize(t)>>)
              /\ \A t \in TickNames, v \in TickValues :
                    /\ TickSizeStep(id, t, v)
                          => tick_data'[i][t] = v /\ NotifiedNext(i, <<t>>)
                    /\ TickGenericStep(id, t, v)
                          => tick_data'[i][t] = v /\ NotifiedNext(i, <<t>>)
                    /\ TickStringStep(id, t, v)
                          => tick_data'[i][t] = [text |-> v] /\ NotifiedNext(i, <<t>>)
              /\ \A tl \in Timeliness :
                    (mdOp'.op = "market_data_type" /\ MarketDataType(id, tl))
                       => /\ market_info'[i].market_data_timeliness = tl
                          /\ received' = received /\ tick_data' = tick_data
              /\ \A p \in TickValues :
                    (mdOp'.op = "tick_req_params" /\ TickReqParams(id, p, p, p))
                       => /\ market_info'[i].minimum_tick = p
                          /\ market_info'[i].bbo_exchange = p
                          /\ market_info'[i].snapshot_permissions = p
                          /\ received' = received /\ tick_data' = tick_data
      ]_vars

\* C12 witness: a generic tick, then a price tick with its paired size, have
\* been dispatched to the instrument, after a timeliness push.
C12_Witness ==
    \E i \in Instruments :
        /\ received[i] = <<"MarkPrice", "DelayedAsk", "DelayedAskSize">>
        /\ tick_data[i]["DelayedAsk"] = 2 /\ tick_data[i]["DelayedAskSize"] = 1
        /\ tick_data[i]["MarkPrice"] = 1
        /\ market_info[i].market_data_timeliness = 3
        /\ mdOp.op = "tick_price"

GetMarketDataStep(inst, r) == mdOp'.op = "get_market_data" /\ GetMarketData(inst, r)
TickSnapshotEndStep(id) == mdOp'.op = "tick_snapshot_end" /\ TickSnapshotEnd(id)

\* C13: the future fetch_market_data() returns is pending once the request is
\* sent; the snapshot-end push for its request id resolves it and retires the
\* entry of that id; a snapshot-end push for an id without entry changes nothing.
C13_OneShotFetch ==
    [][/\ \A inst \in Instruments :
             GetMarketDataStep(inst, FALSE)
                => /\ Len(mdOp'.sent) = 1
                   /\ mdOp'.sent[1].msg = "REQ_MKT_DATA"
                   /\ mdOp'.sent[1].request_id = next_request_id
                   /\ snapshot_future'[next_request_id] = Len(snapshot_futures) + 1
                   /\ snapshot_futures'[Len(snapshot_futures) + 1].state = "pending"
       /\ \A id \in RequestIds :
             LET f == snapshot_future[id]
             IN  TickSnapshotEndStep(id)
                    => /\ snapshot_future'[id] = 0
                       /\ f # 0 => /\ snapshot_futures[f].state = "pending"
                                   /\ snapshot_futures'[f].state = "result"
                                   /\ \A g \in DOMAIN snapshot_futures :
                                         g # f => snapshot_futures'[g] = snapshot_futures[g]
                                   /\ mdOp'.instrument = snapshot_futures[f].instrument
                       /\ f = 0 => /\ UNCHANGED <<snapshot_future, snapshot_futures>>
                                   /\ mdOp'.instrument = 0
      ]_vars

\* C13 witness: a fetch was resolved by its snapshot-end push, and a second
\* snapshot-end push for the same id has found nothing to do.
C13_Witness ==
    /\ mdOp.op = "tick_snapshot_end" /\ mdOp.instrument = 0
    /\ snapshot_future[FIRST_REQUEST_ID] = 0
    /\ next_request_id = FIRST_REQUEST_ID + 1
    /\ Len(snapshot_futures) = 1 /\ snapshot_futures[1].state = "result"
    /\ snapshot_futures[1].result = FIRST_REQUEST_ID

\* C16: get_market_data with regulatory_snapshot=True under a version below the
\* feature's floor raises OutdatedServerError at the call: nothing is sent and
\* neither subscription state nor request bookkeeping changes.
C16_StaleVersionRejection ==
    [][\A inst \in Instruments :
          (version < REQ_SMART_COMPONENTS /\ GetMarketDataStep(inst, TRUE))
             => /\ mdOp'.raised = "OutdatedServerError"
                /\ mdOp'.sent = << >>
                /\ UNCHANGED <<instruments, next_request_id, wire, snapshot_future,
                               snapshot_futures, tick_data, received, market_info>>
      ]_vars

\* C16 witness: under MIN_CLIENT a regulatory snapshot has just been refused,
\* with an earlier fetch still pending.
C16_Witness ==
    /\ version = MIN_CLIENT
    /\ mdOp.op = "get_market_data" /\ mdOp.raised = "OutdatedServerError"
    /\ \E id \in RequestIds :
          snapshot_future[id] # 0 /\ snapshot_futures[snapshot_future[id]].state = "pending"

CreateLimitStep(q, l, a, place) ==
    lastOp'.op = "create_limit_order" /\ CreateLimitOrder(q, l, a, place)
CreateMarketStep(q, a, place) ==
    lastOp'.op = "create_market_order" /\ CreateMarketOrder(q, a, place)

\* The order a create call without action argument has just made: its action
\* is Buy for a positive quantity and Sell otherwise, its quantity the absolute
\* value.
CreatedFrom(ord, q) ==
    /\ ord["action"] = (IF q > 0 THEN BUY ELSE SELL)
    /\ ord["total_quantity"] = (IF q < 0 THEN 0 - q ELSE q)

\* The call sent one PLACE_ORDER message for the new order and registered it and
\* a pending future, which it returns.
PlacedNew ==
    LET o == Len(heap) + 1
        f == Len(futures) + 1
    IN  /\ Len(lastOp'.sent) = 1
        /\ lastOp'.sent[1].msg = "PLACE_ORDER" /\ lastOp'.sent[1].order = o
        /\ orders'[lastOp'.sent[1].order_id] = o
        /\ submitted_future'[lastOp'.sent[1].order_id] = f
        /\ futures'[f].state = "pending"

\* The call sent nothing and registered nothing; the future it returns is done,
\* with the new order as result.
WrappedNew ==
    /\ lastOp'.sent = << >>
    /\ orders' = orders /\ submitted_future' = submitted_future
    /\ futures'[Len(futures) + 1].state = "result"
    /\ futures'[Len(futures) + 1].result = Len(heap) + 1

\* C14: create_limit_order and create_market_order without action derive Buy or
\* Sell from the sign of the quantity and use its absolute value; with place=True
\* one place-order message is sent, and the status push ("Submitted", 0, 100)
\* that follows for the assigned id resolves the returned future with the same
\* Order, whose status is then Submitted and remaining 100; with place=False
\* nothing is sent and nothing registered.
C14_EndToEndPlacement ==
    [][/\ \A q \in Quantities, place \in BOOLEAN :
             /\ \A l \in Limits :
                   CreateLimitStep(q, l, 0, place)
                      => /\ CreatedFrom(heap'[Len(heap) + 1], q)
                         /\ heap'[Len(heap) + 1]["limit_price"] = l
                         /\ heap'[Len(heap) + 1]["order_type"] = LIMIT
                         /\ IF place THEN PlacedNew ELSE WrappedNew
             /\ CreateMarketStep(q, 0, place)
                   => /\ CreatedFrom(heap'[Len(heap) + 1], q)
                      /\ heap'[Len(heap) + 1]["order_type"] = MARKET
                      /\ IF place THEN PlacedNew ELSE WrappedNew
       /\ \A id \in OrderIds :
             (/\ lastOp.op \in {"create_limit_order", "create_market_order"}
              /\ lastOp.sent # << >>
              /\ lastOp.sent[1].order_id = id
              /\ StatusStep(id, SubmittedPush))
                => LET o == lastOp.sent[1].order
                       f == lastOp.sent[1].future_at_send
                   IN  /\ futures'[f].state = "result" /\ futures'[f].result = o
                       /\ heap'[o]["status"] = SUBMITTED
                       /\ heap'[o]["filled"] = 0
                       /\ heap'[o]["remaining"] = 100
                       /\ heap'[o]["order_id"] = id
      ]_vars

\* C14 witness: a limit order for 100 at 13.37 was created and placed, and the
\* Submitted push has resolved its future with that order.
C14_Witness ==
    /\ lastOp.op = "order_status"
    /\ \E f \in DOMAIN futures :
          /\ futures[f].state = "result"
          /\ LET ord == heap[futures[f].result]
             IN  /\ ord["action"] = BUY /\ ord["total_quantity"] = 100
                 /\ ord["limit_price"] = 1337 /\ ord["order_type"] = LIMIT
                 /\ ord["status"] = SUBMITTED /\ ord["remaining"] = 100
                 /\ orders[ord["order_id"]] = futures[f].result

\* C15 as stated: a record stored under key k has order_id k, an order_id that
\* is set never changes, and a key that has a record keeps that record.
C15_Original ==
    [][/\ \A k \in OrderIds : orders'[k] # 0 => heap'[orders'[k]]["order_id"] = k
       /\ \A o \in DOMAIN heap : heap[o]["order_id"] # 0
                                    => heap'[o]["order_id"] = heap[o]["order_id"]
       /\ \A k \in OrderIds : orders[k] # 0 => orders'[k] = orders[k]
      ]_vars

\* C17 as stated: a pending future that place_order returned stays in the
\* correlation map until it is completed or cancelled, so that a push or error
\* for its id can complete it.
C17_Original ==
    [][\A f \in DOMAIN futures :
          futures[f].state = "pending"
             => \/ \E id \in OrderIds : submitted_future'[id] = f
                \/ futures'[f].state # "pending"
      ]_vars

UnsupportedFeatures == {"combo legs", "order combo legs", "order conditions"}

\* C19: an open-order push that ends in UnsupportedFeature, for an id with a
\* pending placement future, leaves the future registered and pending and fires
\* no order-updated notification; the status push or error message that comes
\* next for that id resolves or rejects the future.
C19_FailedDecodeKeepsRequestPending ==
    [][\A id \in OrderIds :
          LET f == submitted_future[id]
          IN  (f # 0 /\ futures[f].state = "pending")
                 => /\ \A msg \in LifecycleMessages :
                          (~Decodable(msg, version) /\ OpenOrderStep(id, msg))
                             => /\ lastOp'.raised \in UnsupportedFeatures
                                /\ submitted_future'[id] = f
                                /\ futures'[f].state = "pending"
                                /\ ~lastOp'.notified
                    /\ (lastOp.op = "open_order" /\ lastOp.raised \in UnsupportedFeatures)
                          => /\ \A v \in StatusPayloads :
                                   StatusStep(id, v)
                                      => /\ futures'[f].state = "result"
                                         /\ futures'[f].result = orders[id]
                                         /\ submitted_future'[id] = 0
                             /\ \A err \in Errors :
                                   ErrStep(id, err)
                                      => /\ futures'[f].state = "exception"
                                         /\ futures'[f].code = err[1]
                                         /\ submitted_future'[id] = 0
      ]_vars

\* C19 witness: an open-order push has just ended in UnsupportedFeature while
\* the id's placement future is pending and registered.
C19_Witness ==
    /\ lastOp.op = "open_order" /\ lastOp.raised = "combo legs" /\ ~lastOp.notified
    /\ \E id \in OrderIds :
          /\ submitted_future[id] # 0
          /\ futures[submitted_future[id]].state = "pending"
          /\ heap[orders[id]]["action"] = 1

GetOpenOrdersStep == lastOp'.op = "get_open_orders" /\ GetOpenOrders

OpenOrderEndStep == lastOp'.op = "open_order_end" /\ HandleOpenOrderEnd

FrameOf(y, ord, hp, sf, futs) ==
    <<ord[y], IF ord[y] # 0 THEN hp[ord[y]] ELSE 0,
      sf[y], IF sf[y] # 0 THEN futs[sf[y]] ELSE 0>>

\* C20: a status push, an open-order push or an error message for id x leaves
\* the record and the placement future of every other id y, the next-id counter
\* and the open-orders future as they were; a next-valid-id push changes the
\* counter and nothing else.
C20_PerIdFrame ==
    [][/\ \A x \in OrderIds :
             (\/ \E v \in StatusPayloads : StatusStep(x, v)
              \/ \E msg \in PlainMessages : OpenOrderStep(x, msg)
              \/ \E err \in Rejections : ErrStep(x, err))
                => /\ \A y \in OrderIds \ {x} :
                         FrameOf(y, orders', heap', submitted_future', futures')
                            = FrameOf(y, orders, heap, submitted_future, futures)
                   /\ UNCHANGED <<next_order_id, oovars>>
       /\ lastOp'.op = "next_valid_id"
             => UNCHANGED <<orders, heap, submitted_future, futures, oovars, version, mdvars>>
      ]_vars

\* C20 witness: a push for one id has just resolved its future while another id
\* holds a record and a pending future, and an open-orders request is pending.
C20_Witness ==
    /\ lastOp.op \in {"order_status", "open_order"} /\ lastOp.notified
    /\ open_orders_future # 0
    /\ open_orders_futures[open_orders_future].state = "pending"
    /\ \E x, y \in OrderIds :
          /\ x # y
          /\ orders[x] # 0 /\ submitted_future[x] = 0
          /\ orders[y] # 0 /\ submitted_future[y] # 0
          /\ futures[submitted_future[y]].state = "pending"
          /\ \E g \in DOMAIN futures : futures[g].state = "result" /\ futures[g].result = orders[x]

====
